---- MODULE Spec2Model ----
(***************************************************************************)
(* kalfje: a one-shot report over the koala database.  main opens the      *)
(* database, parses the two date arguments, and collect_and_print runs a   *)
(* fixed sequence of queries, printing each section as soon as its query   *)
(* has returned.  The tables of the database are the inputs; the queries   *)
(* are modelled by what their SQL text computes over those tables.         *)
(***************************************************************************)
EXTENDS Integers, Sequences, FiniteSets, TLC

VARIABLES
    args,               \* Args: study_year_start and date_after_nova, as typed
    members,            \* table members: id -> join_date
    educations,         \* table educations: rows (member_id, study_id, status)
    studies,            \* table studies: id -> code
    group_members,      \* table group_members: rows, each a member_id
    participants,       \* table participants: rows (member_id, activity_id)
    activities,         \* table activities: id -> (name, start_date)
    pc,                 \* position of main / collect_and_print
    opened,             \* open_database has been called
    study_year_start,   \* the parsed first date (NoDate until parsed)
    date_after_nova,    \* the parsed second date (NoDate until parsed)
    extern_activities,  \* the id list collected for A13 (empty until fetched)
    error,              \* the error main returns: "none" while there is none
    issued,             \* the queries sent to the database so far, in order
    out                 \* the lines printed on standard output so far

vars == << args, members, educations, studies, group_members, participants,
           activities, pc, opened, study_year_start, date_after_nova,
           extern_activities, error, issued, out >>

db == << members, educations, studies, group_members, participants, activities >>

----------------------------------------------------------------------------
(* Bounds of the model *)

\* last calendar year of the dates drawn for the inputs
LastYear == 2012
\* most rows of the educations table
MaxEdu == 2
\* most rows of the group_members table
MaxGroup == 2
\* most rows of the participants table
MaxPart == 2

----------------------------------------------------------------------------
(* Literals of the query texts *)

SeriesYear == 2010
SeriesMonth == 8
SeriesDay == 1
ActiveStatus == 0
BachelorBelow == 5
MasterAbove == 4

----------------------------------------------------------------------------
(* Calendar dates: << year, month, day >> *)

NoDate == << >>

DateLT(a, b) ==
    \/ a[1] < b[1]
    \/ a[1] = b[1] /\ a[2] < b[2]
    \/ a[1] = b[1] /\ a[2] = b[2] /\ a[3] < b[3]

DateGT(a, b) == DateLT(b, a)

DateLE(a, b) == ~ DateLT(b, a)

IsLeap(y) == (y % 4 = 0 /\ y % 100 # 0) \/ y % 400 = 0

DaysInMonth(y, m) ==
    IF m = 2 THEN (IF IsLeap(y) THEN 29 ELSE 28)
    ELSE IF m \in {4, 6, 9, 11} THEN 30 ELSE 31

\* timestamp + interval '1 year' (day clamped to the month's length)
PlusOneYear(d) ==
    << d[1] + 1, d[2],
       IF d[3] > DaysInMonth(d[1] + 1, d[2]) THEN DaysInMonth(d[1] + 1, d[2]) ELSE d[3] >>

----------------------------------------------------------------------------
(* Strings are sequences of one-character strings *)

Digits == << "0", "1", "2", "3", "4", "5", "6", "7", "8", "9" >>

IsDigit(c) == \E i \in 1..10 : Digits[i] = c

DigitVal(c) == (CHOOSE i \in 1..10 : Digits[i] = c) - 1

\* the decimal digit of n at the place p (1, 10, 100, 1000)
DigitAt(n, p) == Digits[((n \div p) % 10) + 1]

\* the text of a date in the form yyyy-mm-dd
DateStr(d) ==
    << DigitAt(d[1], 1000), DigitAt(d[1], 100), DigitAt(d[1], 10), DigitAt(d[1], 1), "-",
       DigitAt(d[2], 10), DigitAt(d[2], 1), "-",
       DigitAt(d[3], 10), DigitAt(d[3], 1) >>

\* Date::parse(s, "[year]-[month]-[day]"): four digits, two digits, two digits,
\* a month of the year and a day of that month; NoDate stands for Err
ParseDate(s) ==
    IF /\ Len(s) = 10
       /\ \A i \in {1, 2, 3, 4, 6, 7, 9, 10} : IsDigit(s[i])
       /\ s[5] = "-"
       /\ s[8] = "-"
    THEN LET y == 1000 * DigitVal(s[1]) + 100 * DigitVal(s[2])
                  + 10 * DigitVal(s[3]) + DigitVal(s[4])
             m == 10 * DigitVal(s[6]) + DigitVal(s[7])
             d == 10 * DigitVal(s[9]) + DigitVal(s[10])
         IN  IF m \in 1..12 /\ d >= 1 /\ d <= DaysInMonth(y, m)
             THEN << y, m, d >>
             ELSE NoDate
    ELSE NoDate

UpperCase == << "A", "B", "C", "D", "E", "F", "G", "H", "I", "J", "K", "L", "M",
                "N", "O", "P", "Q", "R", "S", "T", "U", "V", "W", "X", "Y", "Z" >>

LowerCase == << "a", "b", "c", "d", "e", "f", "g", "h", "i", "j", "k", "l", "m",
                "n", "o", "p", "q", "r", "s", "t", "u", "v", "w", "x", "y", "z" >>

LowerChar(c) ==
    IF \E i \in 1..26 : UpperCase[i] = c
    THEN LowerCase[CHOOSE i \in 1..26 : UpperCase[i] = c]
    ELSE c

\* str::to_lowercase
ToLowercase(s) == [i \in 1..Len(s) |-> LowerChar(s[i])]

IsWhitespace(c) == c \in {" ", "\t", "\n"}

RECURSIVE TrimStart(_)
TrimStart(s) ==
    IF s # << >> /\ IsWhitespace(Head(s)) THEN TrimStart(Tail(s)) ELSE s

RECURSIVE TrimEnd(_)
TrimEnd(s) ==
    IF s # << >> /\ IsWhitespace(s[Len(s)])
    THEN TrimEnd(SubSeq(s, 1, Len(s) - 1))
    ELSE s

\* str::trim
Trim(s) == TrimEnd(TrimStart(s))

\* str::starts_with
StartsWith(s, prefix) ==
    Len(s) >= Len(prefix) /\ SubSeq(s, 1, Len(prefix)) = prefix

ExternPrefix == << "e", "x", "t", "e", "r", "n" >>

\* the filter closure of extern_activities
IsExternName(name) == StartsWith(Trim(ToLowercase(name)), ExternPrefix)

----------------------------------------------------------------------------
(* The queries of collect_and_print, by what their SQL computes *)

MemberIds == DOMAIN members
EduRows == DOMAIN educations
StudyIds == DOMAIN studies
GroupRows == DOMAIN group_members
PartRows == DOMAIN participants
ActivityIds == DOMAIN activities
\* the activity ids that participants rows name
ActivityIdsOfParticipants == { participants[p].activity_id : p \in PartRows }
\* the largest activity id
MaxActivityId ==
    IF ActivityIds = {} THEN 0 ELSE CHOOSE a \in ActivityIds : \A b \in ActivityIds : b <= a

\* the order in which grouped rows are listed (the SQL leaves it open)
CodeList == << "COSC", "INCA", "INKU" >>

\* NewMember with >= for >
NewMemberOrSameDay(m) == DateLE(study_year_start, members[m])

\* members.join_date > $1
NewMember(m) == DateGT(members[m], study_year_start)

\* educations.status = 0
ActiveEdu(e) == educations[e].status = ActiveStatus

\* members JOIN educations ON members.id = educations.member_id
\*         JOIN studies ON educations.study_id = studies.id
MemberEduStudy ==
    { r \in MemberIds \X EduRows \X StudyIds :
        /\ educations[r[2]].member_id = r[1]
        /\ educations[r[2]].study_id = r[3] }

\* members INNER JOIN educations ON members.id = educations.member_id
MemberEdu ==
    { r \in MemberIds \X EduRows : educations[r[2]].member_id = r[1] }

\* CountDistinct without DISTINCT: COUNT(members.id), the number of joined rows
CountJoinedRows(rows) == Cardinality(rows)

\* COUNT(DISTINCT(members.id)) over joined rows, whose first column is members.id
CountDistinct(rows) == Cardinality({ r[1] : r \in rows })

\* GROUP BY studies.code over rows whose third column is the studies row:
\* one CodeCount per code that has a row
RECURSIVE GroupByCode(_, _)
GroupByCode(rows, i) ==
    IF i > Len(CodeList) THEN << >>
    ELSE LET grp == { r \in rows : studies[r[3]] = CodeList[i] }
         IN  (IF grp = {} THEN << >>
              ELSE << [code |-> CodeList[i], count |-> CountDistinct(grp)] >>)
             \o GroupByCode(rows, i + 1)

A2Joined == { r \in MemberEduStudy : ActiveEdu(r[2]) }

A2Rows == GroupByCode(A2Joined, 1)

A3Joined == { r \in MemberEduStudy : ActiveEdu(r[2]) /\ NewMember(r[1]) }

A3Count == CountDistinct(A3Joined)

A4Joined ==
    { r \in MemberEdu : NewMember(r[1]) /\ educations[r[2]].study_id < BachelorBelow }

A4Count == CountDistinct(A4Joined)

\* A5Joined with the threshold of A4 used for the masters: study_id > 5
A5JoinedOffByOne ==
    { r \in MemberEdu : NewMember(r[1]) /\ educations[r[2]].study_id > BachelorBelow }

A5Joined ==
    { r \in MemberEdu : NewMember(r[1]) /\ educations[r[2]].study_id > MasterAbove }

A5Count == CountDistinct(A5Joined)

\* A6Joined without educations.status = 0
A6JoinedAnyStatus == { r \in MemberEduStudy : NewMember(r[1]) }

A6Joined == { r \in MemberEduStudy : ActiveEdu(r[2]) /\ NewMember(r[1]) }

A6Rows == GroupByCode(A6Joined, 1)

\* members INNER JOIN group_members ON members.id = group_members.member_id
A7Joined ==
    { r \in MemberIds \X GroupRows : group_members[r[2]] = r[1] /\ NewMember(r[1]) }

A7Count == CountDistinct(A7Joined)

\* generate_series('2010-08-01'::date, $1::date, '1 year')
Series ==
    { g \in { << y, SeriesMonth, SeriesDay >> : y \in SeriesYear..study_year_start[1] } :
        DateLE(g, study_year_start) }

\* members.join_date > generate_series
\*   AND members.join_date <= generate_series + interval '1 year'
InBucket(m, g) == DateGT(members[m], g) /\ DateLE(members[m], PlusOneYear(g))

NullId == 0

\* A8Joined with INNER JOIN for LEFT JOIN: a series row without a member is lost
A8JoinedInner == { r \in Series \X MemberIds : InBucket(r[2], r[1]) }

\* generate_series LEFT JOIN members ON (in bucket): a series row without a
\* member keeps one row, whose members.id is NULL
A8Joined ==
    { r \in Series \X MemberIds : InBucket(r[2], r[1]) }
    \cup { << g, NullId >> : g \in { h \in Series : \A m \in MemberIds : ~ InBucket(m, h) } }

\* count(distinct(members.id)) filter (where in bucket), for one join_year
A8Members(grp) ==
    Cardinality({ r[2] : r \in { q \in grp : q[2] # NullId /\ InBucket(q[2], q[1]) } })

\* GROUP BY join_year, listed by year
RECURSIVE A8Group(_, _)
A8Group(rows, y) ==
    IF y > study_year_start[1] THEN << >>
    ELSE LET grp == { r \in rows : r[1][1] = y }
         IN  (IF grp = {} THEN << >>
              ELSE << [join_year |-> y, members |-> A8Members(grp)] >>)
             \o A8Group(rows, y + 1)

A8Rows == A8Group(A8Joined, SeriesYear)

\* members inner join group_members JOIN educations join studies
A11Joined ==
    { r \in MemberIds \X EduRows \X StudyIds \X GroupRows :
        /\ group_members[r[4]] = r[1]
        /\ educations[r[2]].member_id = r[1]
        /\ educations[r[2]].study_id = r[3]
        /\ ActiveEdu(r[2])
        /\ NewMember(r[1]) }

A11Rows == GroupByCode(A11Joined, 1)

\* the subquery dinges: SELECT DISTINCT (lid_id, ..., activity_id) of new members
Dinges12 ==
    { r \in MemberIds \X ActivityIdsOfParticipants :
        /\ \E p \in PartRows : participants[p] = [member_id |-> r[1], activity_id |-> r[2]]
        /\ NewMember(r[1]) }

\* dinges INNER JOIN activities WHERE activities.start_date > $2
A12Joined ==
    { r \in Dinges12 :
        r[2] \in ActivityIds /\ DateGT(activities[r[2]].start_date, date_after_nova) }

A12Count == CountDistinct(A12Joined)

\* SELECT id,name FROM activities WHERE start_date > $1, listed by id, then the
\* client-side filter on the name and the map to the id
\* ExternIds without the trim() of the name
RECURSIVE ExternIdsNoTrim(_)
ExternIdsNoTrim(a) ==
    IF a > MaxActivityId THEN << >>
    ELSE (IF /\ a \in ActivityIds
             /\ DateGT(activities[a].start_date, study_year_start)
             /\ StartsWith(ToLowercase(activities[a].name), ExternPrefix)
          THEN << a >> ELSE << >>)
         \o ExternIdsNoTrim(a + 1)

RECURSIVE ExternIds(_)
ExternIds(a) ==
    IF a > MaxActivityId THEN << >>
    ELSE (IF /\ a \in ActivityIds
             /\ DateGT(activities[a].start_date, study_year_start)
             /\ IsExternName(activities[a].name)
          THEN << a >> ELSE << >>)
         \o ExternIds(a + 1)

Dinges13 ==
    { r \in MemberIds \X ActivityIdsOfParticipants :
        \E p \in PartRows : participants[p] = [member_id |-> r[1], activity_id |-> r[2]] }

\* WHERE activities.id IN (SELECT unnest($1::integer[]))
A13Joined(ids) ==
    { r \in Dinges13 :
        r[2] \in ActivityIds /\ \E i \in 1..Len(ids) : ids[i] = r[2] }

A13Count(ids) == CountDistinct(A13Joined(ids))

----------------------------------------------------------------------------
(* Printing *)

Line(kind, sec, rows, val) == [kind |-> kind, sec |-> sec, rows |-> rows, val |-> val]

\* SumCount that counts the rows instead of adding their counts
RECURSIVE SumCountRows(_)
SumCountRows(rows) ==
    IF rows = << >> THEN 0 ELSE 1 + SumCountRows(Tail(rows))

\* a.iter().map(|x| x.count).sum::<i64>()
RECURSIVE SumCount(_)
SumCount(rows) ==
    IF rows = << >> THEN 0 ELSE Head(rows).count + SumCount(Tail(rows))

\* title, table, blank line
PrintTable(sec, rows) ==
    << Line("title", sec, << >>, 0), Line("table", sec, rows, 0), Line("blank", sec, << >>, 0) >>

\* PrintTableSum with the Sum line forgotten
PrintTableSumMissing(sec, rows) ==
    << Line("title", sec, << >>, 0), Line("table", sec, rows, 0), Line("blank", sec, << >>, 0) >>

\* title, table, Sum line, blank line
PrintTableSum(sec, rows) ==
    << Line("title", sec, << >>, 0), Line("table", sec, rows, 0),
       Line("sum", sec, << >>, SumCount(rows)), Line("blank", sec, << >>, 0) >>

\* Table::new(vec![a]) of one OnlyCount
PrintCount(sec, n) == PrintTable(sec, << [count |-> n] >>)

FinalLine == << Line("done", "end", << >>, 0) >>

----------------------------------------------------------------------------
(* main and collect_and_print, one action per await point *)

\* open_database(...).await?
OpenDatabase ==
    /\ pc = "open"
    /\ opened' = TRUE
    /\ \/ pc' = "parse" /\ error' = error
       \/ pc' = "failed" /\ error' = "connect"
    /\ UNCHANGED << args, db, study_year_start, date_after_nova, extern_activities,
                    issued, out >>

\* ParseDates with a parse error swallowed: the run goes on with a default date
ParseDatesLenient ==
    /\ pc = "parse"
    /\ LET a == ParseDate(args.study_year_start)
           b == ParseDate(args.date_after_nova)
       IN  /\ study_year_start' = (IF a = NoDate THEN << SeriesYear, SeriesMonth, SeriesDay >> ELSE a)
           /\ date_after_nova' = (IF b = NoDate THEN << SeriesYear, SeriesMonth, SeriesDay >> ELSE b)
           /\ pc' = "a2"
           /\ error' = error
    /\ UNCHANGED << args, db, opened, extern_activities, issued, out >>

\* Date::parse(&args.study_year_start, ..)?  Date::parse(&args.date_after_nova, ..)?
ParseDates ==
    /\ pc = "parse"
    /\ LET a == ParseDate(args.study_year_start)
           b == ParseDate(args.date_after_nova)
       IN  \/ /\ a # NoDate /\ b # NoDate
              /\ study_year_start' = a
              /\ date_after_nova' = b
              /\ pc' = "a2"
              /\ error' = error
           \/ /\ a = NoDate \/ b = NoDate
              /\ study_year_start' = a
              /\ date_after_nova' = date_after_nova
              /\ pc' = "failed"
              /\ error' = "parse"
    /\ UNCHANGED << args, db, opened, extern_activities, issued, out >>

\* Query with a failed query skipped: its section is left out and the run goes on
QuerySkipOnError(q, next, lines) ==
    /\ pc = q
    /\ issued' = Append(issued, q)
    /\ \/ pc' = next /\ out' = out \o lines /\ error' = error
       \/ pc' = next /\ out' = out /\ error' = "query"
    /\ UNCHANGED << args, db, opened, study_year_start, date_after_nova,
                    extern_activities >>

\* sqlx::query_as(..).fetch(..).await? followed by the section's println!s:
\* the query q is sent; on Ok the lines are printed and control moves on,
\* on Err the ? returns the error from collect_and_print and from main
Query(q, next, lines) ==
    /\ pc = q
    /\ issued' = Append(issued, q)
    /\ \/ pc' = next /\ out' = out \o lines /\ error' = error
       \/ pc' = "failed" /\ out' = out /\ error' = "query"
    /\ UNCHANGED << args, db, opened, study_year_start, date_after_nova,
                    extern_activities >>

A2 == Query("a2", "a3", PrintTableSum("A2", A2Rows))

A3 == Query("a3", "a4", PrintCount("A3", A3Count))

A4 == Query("a4", "a5", PrintCount("A4", A4Count))

A5 == Query("a5", "a6", PrintCount("A5", A5Count))

A6 == Query("a6", "a7", PrintTableSum("A6", A6Rows))

A7 == Query("a7", "a8", PrintCount("A7", A7Count))

A8 == Query("a8", "a11", PrintTable("A8", A8Rows))

A11 == Query("a11", "a12", PrintTableSum("A11", A11Rows))

A12 == Query("a12", "extern", PrintCount("A12", A12Count))

\* the first step of A13: fetch, filter by name, collect the ids; prints nothing
Extern ==
    /\ pc = "extern"
    /\ issued' = Append(issued, "extern")
    /\ \/ pc' = "a13" /\ extern_activities' = ExternIds(1) /\ error' = error
       \/ pc' = "failed" /\ extern_activities' = extern_activities /\ error' = "query"
    /\ UNCHANGED << args, db, opened, study_year_start, date_after_nova, out >>

\* the second step of A13, the closing line and main's return
A13 == Query("a13", "done", PrintCount("A13", A13Count(extern_activities)) \o FinalLine)

Next ==
    \/ OpenDatabase
    \/ ParseDates
    \/ A2
    \/ A3
    \/ A4
    \/ A5
    \/ A6
    \/ A7
    \/ A8
    \/ A11
    \/ A12
    \/ Extern
    \/ A13

----------------------------------------------------------------------------
(* Inputs *)

Str(d) == DateStr(d)

NotADate == << "n", "o", "t", "-", "a", "-", "d", "a", "t", "e" >>

\* "2023-13-01", "not-a-date", "2023-9-1"
BadDateStrings ==
    { << "2", "0", "2", "3", "-", "1", "3", "-", "0", "1" >>,
      NotADate,
      << "2", "0", "2", "3", "-", "9", "-", "1" >> }

\* the study year whose start the fixed inputs use
StartDate == << LastYear - 1, 9, 1 >>
NovaDate == << LastYear - 1, 10, 1 >>

\* join dates before, on and after StartDate
JoinDates == { << LastYear - 1, 8, 31 >>, StartDate, << LastYear - 1, 9, 2 >> }

\* the nondecreasing sequences over 1..n of length at most max: the tables with
\* at most max rows of n kinds, the order of the rows being immaterial
SortedSeqs(n, max) ==
    UNION { { q \in [1..k -> 1..n] : \A i \in 1..(k - 1) : q[i] <= q[i + 1] } : k \in 0..max }

\* the i-th kind of educations row, i in 1..12
EduRow(i) ==
    [member_id |-> ((i - 1) \div 6) + 1,
     study_id  |-> 4 + (((i - 1) \div 2) % 3),
     status    |-> (i - 1) % 2]

EduTables(max) ==
    { [i \in 1..Len(q) |-> EduRow(q[i])] : q \in SortedSeqs(12, max) }

GroupTables(max) == SortedSeqs(2, max)

\* the i-th kind of participants row, i in 1..4
PartRow(i) == [member_id |-> ((i - 1) \div 2) + 1, activity_id |-> ((i - 1) % 2) + 1]

PartTables(max) ==
    { [i \in 1..Len(q) |-> PartRow(q[i])] : q \in SortedSeqs(4, max) }

StudyTables ==
    { (4 :> "INCA") @@ (5 :> "COSC") @@ (6 :> "COSC"),
      (4 :> "INCA") @@ (5 :> "INCA") @@ (6 :> "COSC"),
      (4 :> "INKU") @@ (5 :> "COSC") }

\* "extern borrel", "  ExTeRn Feest", "Interne Borrel", "EXTERN", "ext ern"
ActivityNames ==
    { << "e", "x", "t", "e", "r", "n", " ", "b", "o", "r", "r", "e", "l" >>,
      << " ", " ", "E", "x", "T", "e", "R", "n", " ", "F", "e", "e", "s", "t" >>,
      << "I", "n", "t", "e", "r", "n", "e", " ", "B", "o", "r", "r", "e", "l" >>,
      << "E", "X", "T", "E", "R", "N" >>,
      << "e", "x", "t", " ", "e", "r", "n" >> }

FixedActivities ==
    (1 :> [name |-> << "E", "X", "T", "E", "R", "N" >>, start_date |-> << LastYear - 1, 10, 2 >>])
    @@ (2 :> [name |-> << "b", "o", "r", "r", "e", "l" >>, start_date |-> << LastYear - 1, 9, 15 >>])

InitRun ==
    /\ pc = "open"
    /\ opened = FALSE
    /\ study_year_start = NoDate
    /\ date_after_nova = NoDate
    /\ extern_activities = << >>
    /\ error = "none"
    /\ issued = << >>
    /\ out = << >>

\* the arguments: well-formed and malformed dates in both positions
Init ==
    /\ InitRun
    /\ args \in [study_year_start : { Str(StartDate), Str(<< LastYear - 1, 2, 28 >>) } \cup BadDateStrings,
                 date_after_nova  : { Str(NovaDate) } \cup BadDateStrings]
    /\ members \in [1..2 -> JoinDates]
    /\ educations \in EduTables(1)
    /\ studies \in StudyTables
    /\ group_members = << 1 >>
    /\ participants = << PartRow(1), PartRow(4) >>
    /\ activities = FixedActivities

Spec == Init /\ [][Next]_vars

\* the educations, studies and members vary; the other tables are fixed
InitEdu ==
    /\ InitRun
    /\ args \in { [study_year_start |-> Str(StartDate), date_after_nova |-> Str(NovaDate)],
                  [study_year_start |-> Str(StartDate), date_after_nova |-> NotADate] }
    /\ members \in [1..2 -> JoinDates]
    /\ educations \in EduTables(MaxEdu)
    /\ studies \in StudyTables
    /\ group_members \in { << >>, << 1 >> }
    /\ participants = << PartRow(1), PartRow(4) >>
    /\ activities = FixedActivities

SpecEdu == InitEdu /\ [][Next]_vars

----------------------------------------------------------------------------
(* Reading the output *)

\* the section titles printed so far, in order
RECURSIVE Titles(_)
Titles(lines) ==
    IF lines = << >> THEN << >>
    ELSE (IF Head(lines).kind = "title" THEN << Head(lines).sec >> ELSE << >>)
         \o Titles(Tail(lines))

IsPrefix(p, q) == Len(p) <= Len(q) /\ SubSeq(q, 1, Len(p)) = p

Printed(sec) == \E i \in 1..Len(out) : out[i].kind = "table" /\ out[i].sec = sec

\* the rows of the table printed for a section
TableOf(sec) == out[CHOOSE i \in 1..Len(out) : out[i].kind = "table" /\ out[i].sec = sec].rows

\* the count printed for a single-count section
CountOf(sec) == TableOf(sec)[1].count

HasSum(sec) == \E i \in 1..Len(out) : out[i].kind = "sum" /\ out[i].sec = sec

\* the value of the Sum line of a section
SumOf(sec) == out[CHOOSE i \in 1..Len(out) : out[i].kind = "sum" /\ out[i].sec = sec].val

\* the Sum line of the section stands directly beneath its table
SumBeneathTable(sec) ==
    \E i \in 1..(Len(out) - 1) :
        /\ out[i].kind = "table" /\ out[i].sec = sec
        /\ out[i + 1].kind = "sum" /\ out[i + 1].sec = sec

QueryOrder == << "a2", "a3", "a4", "a5", "a6", "a7", "a8", "a11", "a12", "extern", "a13" >>

SectionOrder == << "A2", "A3", "A4", "A5", "A6", "A7", "A8", "A11", "A12", "A13" >>

ArgsParse ==
    ParseDate(args.study_year_start) # NoDate /\ ParseDate(args.date_after_nova) # NoDate

----------------------------------------------------------------------------
(* C1 *)

\* C1 (as amended): both date arguments are parsed before any query is issued,
\* and a date that fails to parse ends the run with no query issued and nothing
\* printed; by then open_database has already been called.
C1_DatesParsedBeforeQueries ==
    /\ issued # << >> =>
          /\ ArgsParse
          /\ study_year_start = ParseDate(args.study_year_start)
          /\ date_after_nova = ParseDate(args.date_after_nova)
    /\ ~ ArgsParse => issued = << >> /\ out = << >> /\ pc \in { "open", "parse", "failed" }
    /\ error = "parse" => opened /\ pc = "failed" /\ ~ ArgsParse

C1_Witness ==
    /\ error = "parse" /\ pc = "failed" /\ opened
    /\ ParseDate(args.study_year_start) # NoDate
    /\ ParseDate(args.date_after_nova) = NoDate
    /\ issued = << >>

\* C1 as stated: when a date argument does not parse, open_database is never
\* called and no query is issued.
C1_AbortsBeforeConnecting == ~ ArgsParse => ~ opened /\ issued = << >>

----------------------------------------------------------------------------
(* C4 *)

\* C4 (as amended): the three sections A2, A6 and A11 print a Sum line directly
\* beneath their table; A8 prints its table followed by the blank line, without
\* a Sum line, and no other section prints one.
C4_SumLines ==
    /\ \A sec \in { "A2", "A6", "A11" } : Printed(sec) => SumBeneathTable(sec)
    /\ \A i \in 1..Len(out) : out[i].kind = "sum" => out[i].sec \in { "A2", "A6", "A11" }
    /\ \A i \in 1..Len(out) :
          out[i].kind = "table" /\ out[i].sec = "A8" => out[i + 1].kind = "blank"

C4_Witness ==
    /\ pc = "done"
    /\ Printed("A8") /\ ~ HasSum("A8") /\ Len(TableOf("A8")) >= 2
    /\ SumBeneathTable("A2") /\ SumBeneathTable("A6") /\ SumBeneathTable("A11")

\* C4 as stated: each of A2, A6, A8 and A11 prints a Sum line beneath its table.
C4_FourSumLines ==
    \A sec \in { "A2", "A6", "A8", "A11" } : Printed(sec) => SumBeneathTable(sec)

----------------------------------------------------------------------------
(* C5 *)

\* the total of the count column of the first n rows
RECURSIVE TotalUpTo(_, _)
TotalUpTo(rows, n) == IF n = 0 THEN 0 ELSE TotalUpTo(rows, n - 1) + rows[n].count

\* C5: every Sum line follows the table of its section and holds the arithmetic
\* sum of the count column of the rows of that table, 0 for a table without rows.
C5_SumIsTotal ==
    \A i \in 1..Len(out) :
        out[i].kind = "sum" =>
            /\ i > 1
            /\ out[i - 1].kind = "table"
            /\ out[i - 1].sec = out[i].sec
            /\ out[i].val = TotalUpTo(out[i - 1].rows, Len(out[i - 1].rows))
            /\ (out[i - 1].rows = << >> => out[i].val = 0)

C5_Witness ==
    /\ HasSum("A2") /\ Len(TableOf("A2")) = 1 /\ SumOf("A2") = 2
    /\ HasSum("A6") /\ TableOf("A6") = << >> /\ SumOf("A6") = 0

----------------------------------------------------------------------------
(* C6 *)

\* the sections that have been printed when the k-th query is issued
SectionsBefore(k) == IF k - 1 > 9 THEN 9 ELSE k - 1

C6_Inv ==
    /\ IsPrefix(Titles(out), SectionOrder)
    /\ IsPrefix(issued, QueryOrder)
    /\ error = "query" =>
          /\ pc = "failed"
          /\ issued # << >>
          /\ Len(Titles(out)) = SectionsBefore(Len(issued))
    /\ pc = "failed" => \A i \in 1..Len(out) : out[i].kind # "done"
    /\ pc = "done" => error = "none" /\ issued = QueryOrder /\ Titles(out) = SectionOrder

C6_Step ==
    /\ issued' # issued =>
          /\ error = "none"
          /\ Len(issued') = Len(issued) + 1
          /\ Len(Titles(out)) = SectionsBefore(Len(issued'))
    /\ IsPrefix(out, out')
    /\ error = "query" => UNCHANGED << issued, out, pc, error >>

\* C6: the sections printed are always a prefix of A2, A3, A4, A5, A6, A7, A8,
\* A11, A12, A13, each query is issued only when the sections before it have
\* been printed, and after a failed query nothing more is issued or printed, the
\* printed sections stay, and the run ends failed without the closing line.
C6_SequentialAbort == [] C6_Inv /\ [][C6_Step]_vars

C6_Witness ==
    /\ error = "query" /\ pc = "failed"
    /\ issued = SubSeq(QueryOrder, 1, 5)
    /\ Titles(out) = SubSeq(SectionOrder, 1, 4)

----------------------------------------------------------------------------
(* Inputs for the claims about groups and participants *)

InitGroup ==
    /\ InitRun
    /\ args \in { [study_year_start |-> Str(StartDate), date_after_nova |-> Str(NovaDate)],
                  [study_year_start |-> NotADate, date_after_nova |-> Str(NovaDate)] }
    /\ members \in [1..2 -> JoinDates]
    /\ educations \in { << >>, << EduRow(1) >>, << EduRow(2) >>, << EduRow(9) >> }
    /\ studies = (4 :> "INCA") @@ (5 :> "COSC") @@ (6 :> "COSC")
    /\ group_members \in GroupTables(MaxGroup)
    /\ participants \in PartTables(MaxPart)
    /\ activities = FixedActivities

SpecGroup == InitGroup /\ [][Next]_vars

----------------------------------------------------------------------------
(* What the sections are to count, stated over the tables *)

JoinedAfterStart(m) == DateLT(study_year_start, members[m])

EduOf(m) == { e \in EduRows : educations[e].member_id = m }

\* the codes of the studies in which m has an active education
ActiveCodes(m) ==
    { studies[educations[e].study_id] :
        e \in { f \in EduOf(m) : educations[f].status = 0 /\ educations[f].study_id \in StudyIds } }

InGroup(m) == \E g \in GroupRows : group_members[g] = m

\* the members counted under a code in A2 (all members) and in A6 (new ones)
Qualifying(sec, code) ==
    { m \in MemberIds : (sec = "A6" => JoinedAfterStart(m)) /\ code \in ActiveCodes(m) }

\* the members that the joined rows of a query count
Counted(joined) == { r[1] : r \in joined }

\* those of them that joined strictly after the study-year start
CountedNew(joined) == { m \in Counted(joined) : JoinedAfterStart(m) }

\* the rows of one code among joined rows whose third column is the study
OfCode(joined, code) == { r \in joined : studies[r[3]] = code }

----------------------------------------------------------------------------
(* C2 *)

NewWithEducation == { m \in MemberIds : JoinedAfterStart(m) /\ EduOf(m) # {} }

\* C2 (as amended): A3 <= A4 + A5; A4 counts the new members with an education
\* of study_id < 5 and A5 those with one of study_id > 4, whatever its status,
\* so a member with no education contributes to neither.
C2_BachelorMaster ==
    Printed("A5") =>
        /\ CountOf("A3") <= CountOf("A4") + CountOf("A5")
        /\ CountOf("A4") = Cardinality({ m \in NewWithEducation :
                                \E e \in EduOf(m) : educations[e].study_id < 5 })
        /\ CountOf("A5") = Cardinality({ m \in NewWithEducation :
                                \E e \in EduOf(m) : educations[e].study_id > 4 })

C2_Witness ==
    /\ Printed("A5")
    /\ CountOf("A4") = 1 /\ CountOf("A5") = 1 /\ CountOf("A3") = 1
    /\ \E m \in MemberIds : JoinedAfterStart(m) /\ EduOf(m) = {}

\* C2 as stated: A4 + A5 <= A3.
C2_SumAtMostA3 == Printed("A5") => CountOf("A4") + CountOf("A5") <= CountOf("A3")

----------------------------------------------------------------------------
(* C8 *)

\* the code of a study the member has two active educations rows in, be it by
\* two study ids or by one
SharedCode(m, code) ==
    \E e1, e2 \in EduOf(m) :
        /\ e1 # e2
        /\ educations[e1].status = 0 /\ educations[e2].status = 0
        /\ educations[e1].study_id \in StudyIds /\ educations[e2].study_id \in StudyIds
        /\ studies[educations[e1].study_id] = code
        /\ studies[educations[e2].study_id] = code

\* C8: in A2 and A6 there is one row for each code that has a qualifying
\* member, and its count is the number of distinct qualifying members of that
\* code, however many active educations of that code a member has.
C8_DistinctPerCode ==
    \A sec \in { "A2", "A6" } :
        Printed(sec) =>
            LET t == TableOf(sec)
            IN  /\ \A i \in 1..Len(t) : t[i].count = Cardinality(Qualifying(sec, t[i].code))
                /\ \A i, j \in 1..Len(t) : t[i].code = t[j].code => i = j
                /\ \A c \in { CodeList[k] : k \in 1..Len(CodeList) } :
                      Qualifying(sec, c) # {} <=> \E i \in 1..Len(t) : t[i].code = c

C8_Witness ==
    /\ Printed("A6")
    /\ \E m \in MemberIds :
          /\ JoinedAfterStart(m)
          /\ SharedCode(m, "COSC")
          /\ \E e1, e2 \in EduOf(m) : educations[e1].study_id # educations[e2].study_id
    /\ TableOf("A2") = << [code |-> "COSC", count |-> 1] >>
    /\ TableOf("A6") = << [code |-> "COSC", count |-> 1] >>

----------------------------------------------------------------------------
(* C10 *)

\* C10: the Sum of A6 is at least the count of A3, the two are equal exactly
\* when no new member has active educations under two different codes, and
\* every member A3 counts is counted in a row of A6.
C10_SumA6AtLeastA3 ==
    Printed("A6") =>
        /\ SumOf("A6") >= CountOf("A3")
        /\ SumOf("A6") = CountOf("A3") <=>
              ~ \E m \in MemberIds : JoinedAfterStart(m) /\ Cardinality(ActiveCodes(m)) >= 2
        /\ \A m \in Counted(A3Joined) :
              \E i \in 1..Len(TableOf("A6")) : m \in Qualifying("A6", TableOf("A6")[i].code)

C10_Witness ==
    /\ Printed("A6")
    /\ CountOf("A3") = 1
    /\ SumOf("A6") = 2
    /\ \E m \in MemberIds : JoinedAfterStart(m) /\ Cardinality(ActiveCodes(m)) = 2

----------------------------------------------------------------------------
(* C9 *)

NewOnlyCount(sec, joined) ==
    Printed(sec) => CountOf(sec) = Cardinality(CountedNew(joined))

NewOnlyCodes(sec, joined) ==
    Printed(sec) =>
        \A i \in 1..Len(TableOf(sec)) :
            TableOf(sec)[i].count = Cardinality(CountedNew(OfCode(joined, TableOf(sec)[i].code)))

\* C9 (as amended): the queries A3, A4, A5, A6, A7, A11 and A12 count only
\* members whose join_date is strictly after the study-year start: every count
\* they print is the number of such members among those the query joins.
C9_NewMembersOnly ==
    /\ NewOnlyCount("A3", A3Joined)
    /\ NewOnlyCount("A4", A4Joined)
    /\ NewOnlyCount("A5", A5Joined)
    /\ NewOnlyCodes("A6", A6Joined)
    /\ NewOnlyCount("A7", A7Joined)
    /\ NewOnlyCodes("A11", A11Joined)
    /\ NewOnlyCount("A12", A12Joined)
    /\ issued # << >> =>
          \A m \in Counted(A3Joined) \cup Counted(A4Joined) \cup Counted(A5Joined)
                    \cup Counted(A6Joined) \cup Counted(A7Joined) \cup Counted(A11Joined)
                    \cup Counted(A12Joined) :
              members[m] # study_year_start /\ ~ DateLT(members[m], study_year_start)

\* a member who joined on the very day of the start, in a group and at an
\* activity, and one who joined the day after: A7 and A12 count the second only
C9_Witness ==
    /\ Printed("A12")
    /\ \E m, n \in MemberIds :
          /\ members[m] = study_year_start
          /\ InGroup(m)
          /\ \E p \in PartRows : participants[p] = [member_id |-> m, activity_id |-> 1]
          /\ JoinedAfterStart(n)
          /\ InGroup(n)
          /\ \E p \in PartRows : participants[p] = [member_id |-> n, activity_id |-> 1]
    /\ CountOf("A7") = 1
    /\ CountOf("A12") = 1

\* C9 as stated: every query from A2 to A13 counts only such members.
C9_EveryQueryNewOnly ==
    /\ C9_NewMembersOnly
    /\ NewOnlyCodes("A2", A2Joined)
    /\ Printed("A8") =>
          \A i \in 1..Len(TableOf("A8")) :
              TableOf("A8")[i].members =
                  Cardinality({ m \in MemberIds :
                      /\ JoinedAfterStart(m)
                      /\ InBucket(m, << TableOf("A8")[i].join_year, SeriesMonth, SeriesDay >>) })
    /\ NewOnlyCount("A13", A13Joined(extern_activities))

----------------------------------------------------------------------------
(* Inputs for the claim about A8: the start date and the join dates vary *)

A8StartDates ==
    { << y, m, d >> : y \in (SeriesYear - 1)..LastYear, m \in { 7, 8, 9 }, d \in { 1, 2 } }

A8JoinDates ==
    { << y, 8, d >> : y \in SeriesYear..LastYear, d \in { 1, 2 } } \cup { << SeriesYear, 7, 31 >> }

InitA8 ==
    /\ InitRun
    /\ args \in { [study_year_start |-> Str(d), date_after_nova |-> Str(NovaDate)] : d \in A8StartDates }
                \cup { [study_year_start |-> Str(StartDate), date_after_nova |-> NotADate] }
    /\ members \in [1..2 -> A8JoinDates]
    /\ educations = << EduRow(1) >>
    /\ studies = (4 :> "INCA") @@ (5 :> "COSC") @@ (6 :> "COSC")
    /\ group_members = << 1 >>
    /\ participants = << PartRow(1), PartRow(4) >>
    /\ activities = FixedActivities

SpecA8 == InitA8 /\ [][Next]_vars

----------------------------------------------------------------------------
(* C3 *)

\* the years whose 1 August is not after the study-year start
BucketYears == { y \in 2010..study_year_start[1] : ~ DateLT(study_year_start, << y, 8, 1 >>) }

\* the members whose join_date lies in (y-08-01, (y+1)-08-01]
BucketMembers(y) ==
    { m \in MemberIds : DateLT(<< y, 8, 1 >>, members[m]) /\ ~ DateLT(<< y + 1, 8, 1 >>, members[m]) }

\* C3 (as amended): the A8 result has exactly one row for every year from 2010
\* on whose 1 August is on or before the study-year start (the year of the start
\* date itself only when that date is 1 August or later), and a year with no
\* member in its bucket is a row with count 0.
C3_YearRows ==
    Printed("A8") =>
        LET t == TableOf("A8")
        IN  /\ { t[i].join_year : i \in 1..Len(t) } = BucketYears
            /\ Len(t) = Cardinality(BucketYears)
            /\ \A i \in 1..Len(t) : t[i].members = Cardinality(BucketMembers(t[i].join_year))

C3_Witness ==
    /\ Printed("A8")
    /\ study_year_start[2] = 7
    /\ study_year_start[1] > 2011
    /\ \E i \in 1..Len(TableOf("A8")) : TableOf("A8")[i].members = 0
    /\ \E i \in 1..Len(TableOf("A8")) : TableOf("A8")[i].members = 2
    /\ \A i \in 1..Len(TableOf("A8")) : TableOf("A8")[i].join_year < study_year_start[1]

\* C3 as stated: a row for every calendar year from 2010 through the year of
\* the study-year start, count 0 included.
C3_EveryYearThroughStart ==
    Printed("A8") =>
        LET t == TableOf("A8")
        IN  /\ { t[i].join_year : i \in 1..Len(t) } = 2010..study_year_start[1]
            /\ \A i \in 1..Len(t) : t[i].members = Cardinality(BucketMembers(t[i].join_year))

----------------------------------------------------------------------------
(* Inputs for the claim about A13: the activities and participants vary *)

InitA13 ==
    /\ InitRun
    /\ args \in { [study_year_start |-> Str(StartDate), date_after_nova |-> Str(NovaDate)],
                  [study_year_start |-> Str(StartDate), date_after_nova |-> NotADate] }
    /\ members = (1 :> << LastYear - 1, 9, 2 >>) @@ (2 :> << LastYear - 1, 8, 31 >>)
    /\ educations = << EduRow(1) >>
    /\ studies = (4 :> "INCA") @@ (5 :> "COSC") @@ (6 :> "COSC")
    /\ group_members = << 1 >>
    /\ participants \in PartTables(MaxPart)
    /\ activities \in [1..2 -> [name : ActivityNames, start_date : JoinDates]]

SpecA13 == InitA13 /\ [][Next]_vars

----------------------------------------------------------------------------
(* C7 *)

\* the name, lower-cased and with its leading whitespace left out, begins
\* with "extern"
BeginsExtern(name) ==
    \E k \in 0..Len(name) :
        /\ \A i \in 1..k : name[i] \in { " ", "\t", "\n" }
        /\ Len(name) >= k + 6
        /\ \A j \in 1..6 : LowerChar(name[k + j]) = ExternPrefix[j]

QualifyingActivities ==
    { a \in ActivityIds :
        DateLT(study_year_start, activities[a].start_date) /\ BeginsExtern(activities[a].name) }

\* C7: A13 is the number of distinct members with a participants row for an
\* activity that starts strictly after the study-year start and whose name,
\* lower-cased and trimmed, starts with "extern"; the ids bound to the second
\* query are those activities, and with none of them the query is still issued
\* and prints 0 without an error.
C7_ExternCount ==
    /\ pc \in { "a13", "done" } =>
          { extern_activities[i] : i \in 1..Len(extern_activities) } = QualifyingActivities
    /\ Printed("A13") =>
          /\ CountOf("A13") =
                Cardinality({ m \in MemberIds :
                    \E p \in PartRows : /\ participants[p].member_id = m
                                        /\ participants[p].activity_id \in QualifyingActivities })
          /\ issued[Len(issued)] = "a13"
          /\ error = "none"
          /\ QualifyingActivities = {} => extern_activities = << >> /\ CountOf("A13") = 0

C7_Witness ==
    /\ Printed("A13")
    /\ pc = "done"
    /\ extern_activities = << >>
    /\ CountOf("A13") = 0
    /\ participants # << >>
    /\ \E a \in ActivityIds : BeginsExtern(activities[a].name)

====
